---- MODULE Spec2Model ----
(***************************************************************************)
(* TripSplit: the settle endpoint (GET /api/trips/[tripId]/settle), its    *)
(* balance calculation and the simplifyDebts loop, together with the two   *)
(* handlers that build the data it reads (POST /api/trips and              *)
(* POST /api/trips/[tripId]/expenses).                                     *)
(*                                                                         *)
(* Money is a JavaScript Number, an IEEE-754 binary64.  The outcome of the *)
(* comparisons with 0.01 and of Math.round depends on the last bit of the  *)
(* operands, so a Number is modelled exactly.  A Number x is the record    *)
(*      [nom |-> k, err |-> n]    with    x = (k + n / 2^Q) / Den          *)
(* nom is the decimal value the arithmetic is after, counted in units of   *)
(* 1/Den of a currency unit, err is the accumulated binary rounding error, *)
(* counted in units of 1/(Den * 2^Q).  Every operation computes the exact  *)
(* real result and rounds it to 53 significant bits, ties to even.         *)
(***************************************************************************)
EXTENDS Integers, Sequences, FiniteSets

\* ---------------------------------------------------------------- bounds
MaxMembers == 4      \* users that exist, hence the largest trip
MaxExpenses == 2     \* expenses stored for the trip
MaxCents == 7        \* largest amount of one expense, in hundredths
MaxCalcExpenses == 1 \* expenses handed to the calculation taken as a function
MaxPageExpenses == 3 \* expenses added through the trip page
MaxPageCents == 3    \* largest amount typed into the trip page, in hundredths

Users == 1 .. MaxMembers
\* users are interchangeable: the trip is created by the first of them
Creator == CHOOSE u \in Users : \A v \in Users : u <= v

\* ------------------------------------------------ IEEE-754 double numbers
RECURSIVE Gcd(_, _)
Gcd(a, b) == IF b = 0 THEN a ELSE Gcd(b, a % b)

RECURSIVE LcmUpTo(_)
LcmUpTo(n) == IF n <= 1 THEN 1 ELSE (LcmUpTo(n - 1) * n) \div Gcd(LcmUpTo(n - 1), n)

\* a hundredth is split in Sub parts, so that total / memberCount is a
\* whole number of units for every memberCount
Sub == LcmUpTo(MaxMembers)
Den == 100 * Sub

\* significand of a binary64: 52 stored bits
MantBits == 52
\* the errors are counted in units of 2^-Q / Den; every Number the handlers
\* compute is a multiple of 2^-Q
Q == 63

Pow2(n) == 2 ^ n

RECURSIVE Pow2ModRec(_, _)
\* 2^n modulo m, without leaving the 32-bit integers
Pow2ModRec(n, m) ==
    IF n <= 20 THEN (2 ^ n) % m ELSE (((2 ^ 20) % m) * Pow2ModRec(n - 20, m)) % m

\* the divisors the roundings use: x * 100, x + y and x - y, x / memberCount
Divisors == {Sub} \cup {Den * n : n \in 1 .. MaxMembers}
Pow2ModTable == [m \in Divisors |-> [n \in 0 .. Q |-> Pow2ModRec(n, m)]]
Pow2Mod(n, m) == Pow2ModTable[m][n]

\* floor(log2(k / d)) for k, d > 0
RECURSIVE BinadeOf(_, _)
BinadeOf(k, d) ==
    IF k >= 2 * d THEN BinadeOf(k, 2 * d) + 1
    ELSE IF k < d THEN BinadeOf(2 * k, d) - 1
    ELSE 0

RECURSIVE IsPow2Ratio(_, _)
IsPow2Ratio(k, d) ==
    IF k = d THEN TRUE
    ELSE IF k > d THEN (k % 2 = 0 /\ IsPow2Ratio(k \div 2, d))
    ELSE (d % 2 = 0 /\ IsPow2Ratio(k, d \div 2))

\* The binary64 nearest to the positive real (k + n/2^Q) / (d * div), ties to
\* even, returned with nominal value k / div over the denominator d.
\* k > 0 is a multiple of div.
RoundPos(k, n, d, div) ==
    LET dd == d * div
        e0 == BinadeOf(k, dd)
        e  == IF n < 0 /\ IsPow2Ratio(k, dd) THEN e0 - 1 ELSE e0
        s  == e - MantBits + Q          \* ulp = 2^s in units of 2^-Q
    IN  IF s <= 0
        THEN [nom |-> k \div div, err |-> n \div div]
        ELSE LET M  == dd * Pow2(s)     \* one ulp, in units of 2^-Q / dd
                 hi == Pow2(s + 1) * (((k % dd) * Pow2Mod(Q - (s + 1), dd)) % dd)
                 r2 == (hi + n + 2 * M) % (2 * M)
                 r  == r2 % M
                 up == (2 * r > M) \/ (2 * r = M /\ r2 >= M)
             IN  [nom |-> k \div div,
                  err |-> IF up THEN (n - r + M) \div div ELSE (n - r) \div div]

Neg(x) == [nom |-> 0 - x.nom, err |-> 0 - x.err]

\* round the real (k + n/2^Q) / (d * div) to binary64
RoundNum(k, n, d, div) ==
    IF k > 0 THEN RoundPos(k, n, d, div)
    ELSE IF k < 0 THEN Neg(RoundPos(0 - k, 0 - n, d, div))
    ELSE [nom |-> 0, err |-> n \div div]

Zero == [nom |-> 0, err |-> 0]

\* the Number written as the decimal literal c/100, and the quotient c / 100
\* of an integer by 100
CentsOf(c) == RoundNum(c * Sub, 0, Den, 1)
MaxTotal ==
    IF MaxExpenses * MaxCents >= MaxPageExpenses * MaxPageCents
    THEN MaxExpenses * MaxCents
    ELSE MaxPageExpenses * MaxPageCents
CentsTable == [c \in (0 - MaxTotal) .. MaxTotal |-> CentsOf(c)]
Cents(c) == CentsTable[c]

Lt(x, y) == x.nom < y.nom \/ (x.nom = y.nom /\ x.err < y.err)
Gt(x, y) == Lt(y, x)

\* x + y and x - y; adding or subtracting 0 is exact
Add(x, y) ==
    IF y = Zero THEN x ELSE IF x = Zero THEN y
    ELSE RoundNum(x.nom + y.nom, x.err + y.err, Den, 1)
Minus(x, y) ==
    IF y = Zero THEN x ELSE IF x = Zero THEN Neg(y)
    ELSE RoundNum(x.nom - y.nom, x.err - y.err, Den, 1)
DivInt(x, n) == RoundNum(x.nom, x.err, Den, n)

MathAbs(x) == IF Lt(x, Zero) THEN Neg(x) ELSE x
MathMin(x, y) == IF Lt(y, x) THEN y ELSE x

\* mutant of RoundTimes100: Math.floor(x * 100)
FloorTimes100(x) ==
    LET y == RoundNum(x.nom, x.err, Sub, 1)
        f == IF y.nom >= 0 THEN y.nom \div Sub
             ELSE 0 - (((0 - y.nom) + Sub - 1) \div Sub)
    IN  IF y.nom = f * Sub /\ y.err < 0 THEN f - 1 ELSE f

\* Math.round(x * 100): the product is rounded to binary64 first, then
\* Math.round takes floor(y + 0.5), ties towards +Infinity.  An integer.
RoundTimes100(x) ==
    LET y == RoundNum(x.nom, x.err, Sub, 1)       \* x * 100, in hundredths
        t == 2 * y.nom + Sub
        f == IF t >= 0 THEN t \div (2 * Sub)
             ELSE 0 - (((0 - t) + 2 * Sub - 1) \div (2 * Sub))
    IN  IF t = f * 2 * Sub /\ y.err < 0 THEN f - 1 ELSE f

\* Math.round(x * 100) / 100
Round2(x) == Cents(RoundTimes100(x))

\* the literal 0.01
Epsilon == Cents(1)

\* ------------------------------------------------------------- state
VARIABLES
    ownerId,        \* Trip.ownerId of the trip, 0 while no trip exists
    tripUsers,      \* the TripUser rows of the trip, in insertion order (userId)
    expenses,       \* the Expense rows of the trip, in insertion order
    pc,             \* "idle", or "loop" while GET settle is inside simplifyDebts
    userBalances,   \* GET settle: the UserBalance objects, by position
    creditors,      \* simplifyDebts: references (positions) into userBalances
    debtors,        \* simplifyDebts: references (positions) into userBalances
    i,              \* simplifyDebts: creditor cursor (0-based)
    j,              \* simplifyDebts: debtor cursor (0-based)
    transactions,   \* simplifyDebts: the transactions pushed so far
    response,       \* the body of the last response of the three handlers
    trip,           \* trip page: the trip state (null until fetchTrip stored it)
    activeTab,      \* trip page: "overview" or "settle"
    settlementData, \* trip page: the settlement stored, or null
    settlementLoading   \* trip page: a settlement request is under way

vars == <<ownerId, tripUsers, expenses, pc, userBalances, creditors, debtors,
          i, j, transactions, response,
          trip, activeTab, settlementData, settlementLoading>>

locals == <<userBalances, creditors, debtors, i, j, transactions>>

\* the state of the trip page
page == <<trip, activeTab, settlementData, settlementLoading>>

NoResponse == [status |-> 0]

\* useState<Trip | null>(null), useState<SettlementData | null>(null)
NoTrip == [loaded |-> FALSE]
NoSettlement == [status |-> 0]

\* the trip page before it has fetched anything
PageInit ==
    /\ trip = NoTrip
    /\ activeTab = "overview"
    /\ settlementData = NoSettlement
    /\ settlementLoading = FALSE

RECURSIVE SetToSeq(_)
\* the rows a findMany returns for a set of users, in primary-key order
SetToSeq(S) ==
    IF S = {} THEN <<>>
    ELSE LET m == CHOOSE x \in S : \A y \in S : x <= y
         IN  <<m>> \o SetToSeq(S \ {m})

Range(s) == {s[k] : k \in 1 .. Len(s)}

\* mutant of IsMember: the trip is looked up by its id alone
IsMemberAny(u) == ownerId # 0

\* the where-clause of trip.findFirst: the user owns the trip or has a row
IsMember(u) == ownerId # 0 /\ (u = ownerId \/ u \in Range(tripUsers))

\* ------------------------------------------------ balance calculation
allMembers(owner, rows) == <<owner>> \o rows

findIndex(s, id) == CHOOSE k \in 1 .. Len(s) : s[k] = id /\ \A m \in 1 .. (k - 1) : s[m] # id

RECURSIVE uniquePrefixInverted(_, _)
\* mutant of uniquePrefix: index !== self.findIndex(...)
uniquePrefixInverted(all, n) ==
    IF n = 0 THEN <<>>
    ELSE IF findIndex(all, all[n]) # n
         THEN Append(uniquePrefixInverted(all, n - 1), all[n])
         ELSE uniquePrefixInverted(all, n - 1)

RECURSIVE uniquePrefix(_, _)
uniquePrefix(all, n) ==
    IF n = 0 THEN <<>>
    ELSE IF findIndex(all, all[n]) = n
         THEN Append(uniquePrefix(all, n - 1), all[n])
         ELSE uniquePrefix(all, n - 1)

\* mutant of uniqueMembers: the duplicates are kept
uniqueMembersAll(all) == all

uniqueMembers(all) == uniquePrefix(all, Len(all))

RECURSIVE SumAmounts(_, _)
\* exps.reduce((sum, expense) => sum + expense.amount, 0)
SumAmounts(exps, n) ==
    IF n = 0 THEN Zero ELSE Add(SumAmounts(exps, n - 1), exps[n].amount)

PaidBy(exps, id) == SelectSeq(exps, LAMBDA x : x.paidById = id)

totalExpenses(exps) == SumAmounts(exps, Len(exps))

\* mutant of perPersonShare: the division by memberCount is forgotten
perPersonShareUndivided(total, memberCount) == total

perPersonShare(total, memberCount) ==
    IF memberCount > 0 THEN DivInt(total, memberCount) ELSE Zero

\* mutant of UserBalance: the expenses are not filtered by payer
UserBalanceUnfiltered(id, exps, share) ==
    LET totalPaid == totalExpenses(exps)
    IN  [userId    |-> id,
         totalPaid |-> totalPaid,
         share     |-> share,
         balance   |-> Round2(Minus(totalPaid, share))]

\* mutant of UserBalance: the share is not subtracted
UserBalanceGross(id, exps, share) ==
    LET totalPaid == totalExpenses(PaidBy(exps, id))
    IN  [userId    |-> id,
         totalPaid |-> totalPaid,
         share     |-> share,
         balance   |-> Round2(totalPaid)]

UserBalance(id, exps, share) ==
    LET totalPaid == totalExpenses(PaidBy(exps, id))
    IN  [userId    |-> id,
         totalPaid |-> totalPaid,
         share     |-> share,
         balance   |-> Round2(Minus(totalPaid, share))]

\* lines 162-182 of GET settle: the UserBalance of every member of the list
calculateBalances(members, exps) ==
    LET share == perPersonShare(totalExpenses(exps), Len(members))
    IN  [k \in 1 .. Len(members) |-> UserBalance(members[k], exps, share)]

\* lines 151-182 of GET settle: the UserBalance of every unique member
computeBalances(owner, rows, exps) ==
    calculateBalances(uniqueMembers(allMembers(owner, rows)), exps)

\* ---------------------------------------------------- simplifyDebts
\* mutant of Before: the two comparators are exchanged
BeforeExchanged(ub, a, b, desc) ==
    IF desc THEN Lt(Minus(ub[a].balance, ub[b].balance), Zero)
    ELSE Lt(Minus(ub[b].balance, ub[a].balance), Zero)

\* the sort comparators: a negative result puts a before b
Before(ub, a, b, desc) ==
    IF desc THEN Lt(Minus(ub[b].balance, ub[a].balance), Zero)
    ELSE Lt(Minus(ub[a].balance, ub[b].balance), Zero)

RECURSIVE InsertBeforeEqual(_, _, _, _)
\* mutant of Insert: an unstable sort, equal elements end in reverse order
InsertBeforeEqual(L, x, ub, desc) ==
    IF L = <<>> THEN <<x>>
    ELSE IF ~Before(ub, Head(L), x, desc) THEN <<x>> \o L
    ELSE <<Head(L)>> \o InsertBeforeEqual(Tail(L), x, ub, desc)

RECURSIVE Insert(_, _, _, _)
Insert(L, x, ub, desc) ==
    IF L = <<>> THEN <<x>>
    ELSE IF Before(ub, x, Head(L), desc) THEN <<x>> \o L
    ELSE <<Head(L)>> \o Insert(Tail(L), x, ub, desc)

RECURSIVE SortRefs(_, _, _, _)
\* Array.prototype.sort: a stable sort
SortRefs(s, n, ub, desc) ==
    IF n = 0 THEN <<>> ELSE Insert(SortRefs(s, n - 1, ub, desc), s[n], ub, desc)

Refs(ub) == [k \in 1 .. Len(ub) |-> k]

IsCreditor(b) == Gt(b.balance, Epsilon)

\* mutant of IsDebtor: b.balance <= -0.01
IsDebtorInclusive(b) == ~Gt(b.balance, Neg(Epsilon))

IsDebtor(b) == Lt(b.balance, Neg(Epsilon))

creditorsOf(ub) ==
    LET f == SelectSeq(Refs(ub), LAMBDA k : IsCreditor(ub[k]))
    IN  SortRefs(f, Len(f), ub, TRUE)

debtorsOf(ub) ==
    LET f == SelectSeq(Refs(ub), LAMBDA k : IsDebtor(ub[k]))
    IN  SortRefs(f, Len(f), ub, FALSE)

LoopCond == i < Len(creditors) /\ j < Len(debtors)

\* mutant of settleAmountOf: Math.max in the place of Math.min
settleAmountMax(ub, c, d) ==
    IF Lt(ub[c].balance, MathAbs(ub[d].balance)) THEN MathAbs(ub[d].balance)
    ELSE ub[c].balance

\* mutant of settleAmountOf: never more than 0.02 in one transaction
settleAmountCapped(ub, c, d) ==
    MathMin(MathMin(ub[c].balance, MathAbs(ub[d].balance)), Cents(2))

\* one iteration, for the creditor object c and the debtor object d of ub
settleAmountOf(ub, c, d) == MathMin(ub[c].balance, MathAbs(ub[d].balance))

Significant(settleAmount) == Gt(settleAmount, Epsilon)

\* mutant of Transaction: the payee is taken from the debtor as well
TransactionToDebtor(ub, c, d, settleAmount) ==
    [from   |-> ub[d].userId,
     to     |-> ub[d].userId,
     amount |-> Round2(settleAmount)]

\* mutant of Transaction: the payer is taken from the creditor as well
TransactionFromCreditor(ub, c, d, settleAmount) ==
    [from   |-> ub[c].userId,
     to     |-> ub[c].userId,
     amount |-> Round2(settleAmount)]

\* mutant of Transaction: payer and payee are swapped
TransactionReversed(ub, c, d, settleAmount) ==
    [from   |-> ub[c].userId,
     to     |-> ub[d].userId,
     amount |-> Round2(settleAmount)]

\* mutant of Transaction: the amount is what the creditor is owed
TransactionCreditorAmount(ub, c, d, settleAmount) ==
    [from   |-> ub[d].userId,
     to     |-> ub[c].userId,
     amount |-> Round2(ub[c].balance)]

Transaction(ub, c, d, settleAmount) ==
    [from   |-> ub[d].userId,
     to     |-> ub[c].userId,
     amount |-> Round2(settleAmount)]

creditorAfter(ub, c, d) ==
    IF Significant(settleAmountOf(ub, c, d))
    THEN Minus(ub[c].balance, settleAmountOf(ub, c, d))
    ELSE ub[c].balance

debtorAfter(ub, c, d) ==
    IF Significant(settleAmountOf(ub, c, d))
    THEN Add(ub[d].balance, settleAmountOf(ub, c, d))
    ELSE ub[d].balance

\* mutant of AdvanceCreditor: the creditor is left only once overpaid
AdvanceCreditorNegative(b) == Lt(b, Zero)

AdvanceCreditor(b) == Lt(b, Epsilon)

\* mutant of AdvanceDebtor: Math.abs is forgotten
AdvanceDebtorSigned(b) == Lt(b, Epsilon)

AdvanceDebtor(b) == Lt(MathAbs(b), Epsilon)

\* ------------------------------------------------------------- actions
Init ==
    /\ ownerId = 0
    /\ tripUsers = <<>>
    /\ expenses = <<>>
    /\ pc = "idle"
    /\ userBalances = <<>>
    /\ creditors = <<>>
    /\ debtors = <<>>
    /\ i = 0
    /\ j = 0
    /\ transactions = <<>>
    /\ response = NoResponse
    /\ PageInit

\* POST /api/trips by user o, memberEmails resolving to the users S
CreateTrip(o, S) ==
    /\ pc = "idle"
    /\ ownerId = 0
    /\ ownerId' = o
    /\ tripUsers' = <<o>> \o SetToSeq(S)
    /\ response' = [status |-> 201]
    /\ UNCHANGED <<expenses, pc, locals, page>>

\* the values a request body carries as title and as amount; a number is
\* given in hundredths
Titles == {"", "t"}
Amounts ==
    {[typeof |-> "undefined", value |-> 0], [typeof |-> "string", value |-> 1]}
        \cup {[typeof |-> "number", value |-> c] : c \in (0 - 1) .. MaxCents}

\* !title || typeof title !== 'string' || title.trim().length === 0
InvalidTitle(title) == title = ""

\* mutant of InvalidAmount: the test amount <= 0 is missing
InvalidAmountTypeOnly(amount) == amount.typeof # "number"

\* !amount || typeof amount !== 'number' || amount <= 0
InvalidAmount(amount) ==
    \/ amount.typeof = "undefined"
    \/ (amount.typeof = "number" /\ amount.value = 0)
    \/ amount.typeof # "number"
    \/ amount.value <= 0

\* POST /api/trips/[tripId]/expenses by user u with the body {title, amount}
AddExpense(u, title, amount) ==
    /\ pc = "idle"
    /\ ownerId # 0
    /\ IF InvalidTitle(title) \/ InvalidAmount(amount)
       THEN /\ response' = [status |-> 400]
            /\ UNCHANGED expenses
       ELSE IF ~IsMember(u)
       THEN /\ response' = [status |-> 404]
            /\ UNCHANGED expenses
       ELSE /\ Len(expenses) < MaxExpenses
            /\ expenses' = Append(expenses, [paidById |-> u, amount |-> Cents(amount.value)])
            /\ response' = [status |-> 201]
    /\ UNCHANGED <<ownerId, tripUsers, pc, locals, page>>

\* GET /api/trips/[tripId]/settle by user u, up to the first test of the
\* while loop of simplifyDebts: what the handler does on the server
SettleStart ==
    /\ pc = "idle"
    /\ \E u \in Users : IsMember(u)
    /\ userBalances' = computeBalances(ownerId, tripUsers, expenses)
    /\ transactions' = <<>>
    /\ creditors' = creditorsOf(userBalances')
    /\ debtors' = debtorsOf(userBalances')
    /\ i' = 0
    /\ j' = 0
    /\ pc' = "loop"
    /\ response' = NoResponse
    /\ UNCHANGED <<ownerId, tripUsers, expenses>>

\* GET settle requested by another client than the trip page modelled
SettleGET == SettleStart /\ UNCHANGED page

\* one iteration of the while loop of simplifyDebts
simplifyDebtsStep ==
    /\ pc = "loop"
    /\ LoopCond
    /\ LET c == creditors[i + 1]
           d == debtors[j + 1]
           settleAmount == settleAmountOf(userBalances, c, d)
           cb == creditorAfter(userBalances, c, d)
           db == debtorAfter(userBalances, c, d)
       IN  /\ transactions' =
                 IF Significant(settleAmount)
                 THEN Append(transactions, Transaction(userBalances, c, d, settleAmount))
                 ELSE transactions
           /\ userBalances' = [userBalances EXCEPT ![c].balance = cb, ![d].balance = db]
           /\ i' = IF AdvanceCreditor(cb) THEN i + 1 ELSE i
           /\ j' = IF AdvanceDebtor(db) THEN j + 1 ELSE j
    /\ UNCHANGED <<ownerId, tripUsers, expenses, pc, creditors, debtors, response, page>>

\* the loop is left: simplifyDebts returns and GET settle sends its response
SettleFinish ==
    /\ pc = "loop"
    /\ ~LoopCond
    /\ response' =
          [status       |-> 200,
           summary      |-> [totalExpenses     |-> Round2(totalExpenses(expenses)),
                             perPersonShare    |-> Round2(perPersonShare(totalExpenses(expenses),
                                                                         Len(userBalances))),
                             memberCount       |-> Len(userBalances),
                             totalTransactions |-> Len(transactions)],
           balances     |-> userBalances,
           transactions |-> transactions]
    /\ pc' = "idle"
    /\ userBalances' = <<>>
    /\ creditors' = <<>>
    /\ debtors' = <<>>
    /\ i' = 0
    /\ j' = 0
    /\ transactions' = <<>>
    /\ UNCHANGED <<ownerId, tripUsers, expenses>>

\* the response goes to another client than the trip page modelled
SettleReturn == SettleFinish /\ UNCHANGED page

Next ==
    \/ \E S \in SUBSET (Users \ {Creator}) : CreateTrip(Creator, S)
    \/ \E u \in Users : \E title \in Titles : \E amount \in Amounts :
          AddExpense(u, title, amount)
    \/ SettleGET
    \/ simplifyDebtsStep
    \/ SettleReturn

Spec == Init /\ [][Next]_vars

\* ------------------------------------- the calculation as a function
\* Lines 162-200 of GET settle read as a function of the member list and of
\* the expense list, whatever the two hold: tripUsers is the member list
\* handed over (uniqueMembers), there is no trip row (ownerId = 0), and the
\* payer of an expense is any user (Expense.paidById references User, not
\* TripUser).
CalcInit ==
    /\ ownerId = 0
    /\ tripUsers \in {SetToSeq(S) : S \in SUBSET Users}
    /\ expenses \in UNION {[1 .. n -> [paidById : Users,
                                       amount : {Cents(c) : c \in 1 .. MaxCents}]] :
                              n \in 0 .. MaxCalcExpenses}
    /\ pc = "idle"
    /\ userBalances = <<>>
    /\ creditors = <<>>
    /\ debtors = <<>>
    /\ i = 0
    /\ j = 0
    /\ transactions = <<>>
    /\ response = NoResponse
    /\ PageInit

\* lines 162-185, up to the first test of the while loop of simplifyDebts
Calculate ==
    /\ pc = "idle"
    /\ ownerId = 0
    /\ response = NoResponse
    /\ userBalances' = calculateBalances(tripUsers, expenses)
    /\ transactions' = <<>>
    /\ creditors' = creditorsOf(userBalances')
    /\ debtors' = debtorsOf(userBalances')
    /\ i' = 0
    /\ j' = 0
    /\ pc' = "loop"
    /\ UNCHANGED <<ownerId, tripUsers, expenses, response, page>>

CalcNext ==
    \/ Calculate
    \/ simplifyDebtsStep
    \/ SettleReturn

SpecCalc == CalcInit /\ [][CalcNext]_vars

\* ------------------------------------------------------ the trip page
\* The page /trips/[tripId] opened by the owner of the trip, with the
\* handlers it calls.  The expenses of the trip are the ones this page adds.
PageUser == Creator
Tabs == {"overview", "settle"}

\* the parsed text of the amount field, in hundredths
PageAmounts == (0 - 1) .. MaxPageCents

\* orderBy: { createdAt: 'desc' }
Reverse(s) == [k \in 1 .. Len(s) |-> s[Len(s) + 1 - k]]

\* the trip as the API returns it to the page: the expenses newest first,
\* and _count with the number of Expense rows and of TripUser rows
tripResponse ==
    [loaded   |-> TRUE,
     expenses |-> Reverse(expenses),
     _count   |-> [expenses |-> Len(expenses), tripUsers |-> Len(tripUsers)]]

\* the page is opened: its state takes the useState defaults and fetchTrip
\* stores the trip
fetchTrip ==
    /\ pc = "idle"
    /\ IsMember(PageUser)
    /\ trip' = tripResponse
    /\ activeTab' = "overview"
    /\ settlementData' = NoSettlement
    /\ settlementLoading' = FALSE
    /\ UNCHANGED <<ownerId, tripUsers, expenses, pc, locals, response>>

\* the form of the page is submitted with a title and an amount; what
\* passes the tests of the page also passes the tests of POST expenses
handleAddExpense(title, c) ==
    /\ pc = "idle"
    /\ trip # NoTrip
    /\ IF title = "" \/ c <= 0
       THEN UNCHANGED <<expenses, response, trip>>
       ELSE LET amount == [typeof |-> "number", value |-> c]
                newExpense == [paidById |-> PageUser, amount |-> Cents(c)]
            IN  /\ ~InvalidTitle(title)
                /\ ~InvalidAmount(amount)
                /\ IsMember(PageUser)
                /\ Len(expenses) < MaxPageExpenses
                /\ expenses' = Append(expenses, newExpense)
                /\ response' = [status |-> 201]
                /\ trip' = [trip EXCEPT !.expenses = <<newExpense>> \o @,
                                        !._count.expenses = @ + 1]
    /\ UNCHANGED <<ownerId, tripUsers, pc, locals, activeTab, settlementData,
                   settlementLoading>>

\* a tab button is clicked
setActiveTab(t) ==
    /\ trip # NoTrip
    /\ activeTab' = t
    /\ UNCHANGED <<ownerId, tripUsers, expenses, pc, locals, response, trip,
                   settlementData, settlementLoading>>

\* fetchSettlement up to the request, called by the effect on
\* [activeTab, settlementData] or by the Retry button
fetchSettlement ==
    /\ activeTab = "settle"
    /\ settlementData = NoSettlement
    /\ ~settlementLoading
    /\ SettleStart
    /\ settlementLoading' = TRUE
    /\ UNCHANGED <<trip, activeTab, settlementData>>

\* GET settle answers and fetchSettlement stores the answer
setSettlementData ==
    /\ settlementLoading
    /\ SettleFinish
    /\ settlementData' = response'
    /\ settlementLoading' = FALSE
    /\ UNCHANGED <<trip, activeTab>>

\* trip.expenses.reduce((total, expense) => total + expense.amount, 0)
getTotalExpenses == IF trip = NoTrip THEN Zero ELSE totalExpenses(trip.expenses)

\* the Per Person figure of the Overview tab
getPerPersonShare ==
    IF trip = NoTrip \/ trip._count.tripUsers = 0
    THEN Zero
    ELSE DivInt(getTotalExpenses, trip._count.tripUsers)

PageNext ==
    \/ \E S \in SUBSET (Users \ {Creator}) : CreateTrip(Creator, S)
    \/ fetchTrip
    \/ \E title \in Titles : \E c \in PageAmounts : handleAddExpense(title, c)
    \/ \E t \in Tabs : setActiveTab(t)
    \/ fetchSettlement
    \/ simplifyDebtsStep
    \/ setSettlementData

SpecPage == Init /\ [][PageNext]_vars

\* ------------------------------------------------------ properties
\* GET settle has answered, and the trip has not changed since
Done == pc = "idle" /\ response.status = 200

\* GET settle has computed the balances and simplifyDebts has not yet
\* run an iteration: userBalances is what the balance calculation produced
Fresh == pc = "loop" /\ i = 0 /\ j = 0 /\ transactions = <<>>

\* the balances the calculation produces for the stored trip
Calculated == computeBalances(ownerId, tripUsers, expenses)

AbsInt(n) == IF n < 0 THEN 0 - n ELSE n

\* Amounts are read as decimals: the nominal value of a Number, in units
\* of 1/Sub of a hundredth.  One hundredth (epsilon) is Sub units.
RECURSIVE SumBalances(_, _)
SumBalances(bals, n) ==
    IF n = 0 THEN 0 ELSE SumBalances(bals, n - 1) + bals[n].balance.nom

RECURSIVE NetPaid(_, _, _)
\* what id has paid minus what id has received in txs[1 .. n]
NetPaid(txs, n, id) ==
    IF n = 0 THEN 0
    ELSE NetPaid(txs, n - 1, id)
         + (IF txs[n].from = id THEN txs[n].amount.nom ELSE 0)
         - (IF txs[n].to = id THEN txs[n].amount.nom ELSE 0)

\* the balance of b once every transaction of txs is applied
Residual(b, txs) == b.balance.nom + NetPaid(txs, Len(txs), b.userId)

Settles(txs, bals) ==
    \A k \in 1 .. Len(bals) : AbsInt(Residual(bals[k], txs)) <= Sub

\* C1: applying the transactions GET settle returns to the balances it
\* calculated leaves every participant within 0.01 of zero.
C1_SettlementCorrect ==
    Done => Settles(response.transactions, Calculated)

\* C2: simplifyDebts terminates.  Every iteration of the loop advances the
\* creditor cursor or the debtor cursor, neither cursor runs past its list,
\* so the loop is left after at most creditors.length + debtors.length
\* iterations.
C2_EveryIterationAdvances ==
    (pc = "loop") =>
        /\ i <= Len(creditors)
        /\ j <= Len(debtors)
        /\ LoopCond =>
              \/ AdvanceCreditor(creditorAfter(userBalances, creditors[i + 1], debtors[j + 1]))
              \/ AdvanceDebtor(debtorAfter(userBalances, creditors[i + 1], debtors[j + 1]))

\* the loop is at a creditor or a debtor whose remaining amount prints as
\* 0.01 while entries remain in both lists
C2_Witness ==
    /\ pc = "loop"
    /\ LoopCond
    /\ transactions # <<>>
    /\ \/ userBalances[creditors[i + 1]].balance.nom = Sub
       \/ userBalances[debtors[j + 1]].balance.nom = 0 - Sub

\* C3 as stated: the calculated balances sum to zero within 0.01, whatever
\* the number of participants.
C3_ZeroSumWithinEpsilon ==
    Fresh => AbsInt(SumBalances(userBalances, Len(userBalances))) <= Sub

\* C3 as amended: the calculated balances sum to zero within half a
\* hundredth per participant, 0.005 * N (hence within 0.01 for N <= 3).
C3_ZeroSumHalfCentPerMember ==
    Fresh => 2 * AbsInt(SumBalances(userBalances, Len(userBalances)))
                <= Len(userBalances) * Sub

\* the balances of a trip are off by more than one hundredth in total
C3_Witness ==
    /\ Fresh
    /\ expenses # <<>>
    /\ AbsInt(SumBalances(userBalances, Len(userBalances))) > Sub

\* C4: the absolute value of the sum of the calculated balances is at
\* most 0.01 * N for N participants.
C4_ZeroSumPerMember ==
    Fresh => AbsInt(SumBalances(userBalances, Len(userBalances)))
                <= Len(userBalances) * Sub

\* balances of several participants that do not sum to zero
C4_Witness ==
    /\ Fresh
    /\ Len(userBalances) >= 2
    /\ SumBalances(userBalances, Len(userBalances)) # 0

\* the transactions one could make between the participants of bals
TxChoices(bals) ==
    {[from |-> bals[f].userId, to |-> bals[t].userId, amount |-> Cents(a)] :
        <<f, t, a>> \in {x \in (1 .. Len(bals)) \X (1 .. Len(bals)) \X (1 .. MaxTotal) :
                            x[1] # x[2]}}

\* C5: the list simplifyDebts returns is as short as any list of
\* transactions that settles the same balances.
C5_Minimal ==
    (Done /\ Settles(response.transactions, Calculated)) =>
        \A m \in 0 .. (Len(response.transactions) - 1) :
            \A alt \in [1 .. m -> TxChoices(Calculated)] : ~Settles(alt, Calculated)

\* C6: simplifyDebts emits at most creditors + debtors - 1 transactions,
\* and none when there is no creditor or no debtor.
C6_CountBound ==
    (pc = "loop") =>
        IF Len(creditors) = 0 \/ Len(debtors) = 0
        THEN Len(transactions) = 0
        ELSE Len(transactions) <= Len(creditors) + Len(debtors) - 1

\* simplifyDebts is about to return as many transactions as the bound
\* allows, with several creditors and several debtors
C6_Witness ==
    /\ pc = "loop"
    /\ ~LoopCond
    /\ Len(creditors) >= 2
    /\ Len(debtors) >= 2
    /\ Len(transactions) = Len(creditors) + Len(debtors) - 1

\* C7: every transaction emitted has an amount above 0.01 (in particular
\* above zero), also after the rounding to two decimals.
C7_AmountsAboveEpsilon ==
    \A k \in 1 .. Len(transactions) : Gt(transactions[k].amount, Epsilon)

\* C8: no transaction is from a participant to that same participant.
C8_NoSelfPayment ==
    /\ \A k \in 1 .. Len(transactions) : transactions[k].from # transactions[k].to
    /\ Done => \A k \in 1 .. Len(response.transactions) :
                  response.transactions[k].from # response.transactions[k].to

\* a settlement of several transactions has been returned
C8_Witness == Done /\ Len(response.transactions) >= 2

\* C9: the balances GET settle returns are the balances it calculated:
\* simplifyDebts worked on copies.
C9_BalancesNotMutated ==
    Done => \A k \in 1 .. Len(response.balances) :
               response.balances[k].balance = Calculated[k].balance

\* the participants of the stored trip
Participants == {ownerId} \cup Range(tripUsers)

RECURSIVE PaidNom(_, _, _)
\* what id paid in exps[1 .. n], read from the stored rows
PaidNom(exps, n, id) ==
    IF n = 0 THEN 0
    ELSE PaidNom(exps, n - 1, id)
         + (IF exps[n].paidById = id THEN exps[n].amount.nom ELSE 0)

AllPaidSame ==
    \A p \in Participants : \A q \in Participants :
        PaidNom(expenses, Len(expenses), p) = PaidNom(expenses, Len(expenses), q)

\* C11: when every participant paid the same total (no expense at all, a
\* single participant, equal payers), every calculated balance is zero and
\* simplifyDebts returns no transaction.
C11_SettledInputs ==
    /\ (Fresh /\ AllPaidSame) =>
          /\ \A k \in 1 .. Len(userBalances) : userBalances[k].balance = Zero
          /\ creditors = <<>>
          /\ debtors = <<>>
    /\ (Done /\ AllPaidSame) =>
          /\ response.transactions = <<>>
          /\ \A k \in 1 .. Len(response.balances) : response.balances[k].balance = Zero

\* a settlement has been returned for several participants who each paid
\* the same positive total
C11_Witness ==
    /\ Done
    /\ AllPaidSame
    /\ Len(tripUsers) >= 2
    /\ expenses # <<>>

RECURSIVE TxSum(_, _)
TxSum(txs, n) == IF n = 0 THEN 0 ELSE TxSum(txs, n - 1) + txs[n].amount.nom

RECURSIVE PositiveSum(_, _)
PositiveSum(bals, n) ==
    IF n = 0 THEN 0
    ELSE PositiveSum(bals, n - 1) + (IF bals[n].balance.nom > 0 THEN bals[n].balance.nom ELSE 0)

ZeroSum == SumBalances(Calculated, Len(Calculated)) = 0

\* what the transactions returned leave unpaid of the positive balances
Shortfall ==
    PositiveSum(Calculated, Len(Calculated))
        - TxSum(response.transactions, Len(response.transactions))

\* C12 as stated: when the calculated balances sum exactly to zero, the
\* amounts of the transactions returned sum to the total of the positive
\* balances.
C12_Conservation ==
    (Done /\ ZeroSum) => Shortfall = 0

\* C12 as amended: when the calculated balances sum exactly to zero, the
\* amounts of the transactions returned sum to at most the total of the
\* positive balances, and fall short of it by at most 0.01 for each
\* participant but one.
C12_ConservationWithinEpsilonEach ==
    (Done /\ ZeroSum) =>
        /\ Shortfall >= 0
        /\ Shortfall <= Sub * (Len(Calculated) - 1)

\* transactions have been returned for balances that sum to zero, and they
\* leave part of the positive balances unpaid
C12_Witness ==
    /\ Done
    /\ ZeroSum
    /\ response.transactions # <<>>
    /\ Shortfall > 0

\* an expense of the list handed to the calculation is paid by nobody of
\* the member list
UnknownPayer ==
    \E k \in 1 .. Len(expenses) : expenses[k].paidById \notin Range(tripUsers)

ResidualLeft ==
    /\ pc = "loop"
    /\ ~LoopCond
    /\ \E k \in 1 .. Len(userBalances) : Gt(MathAbs(userBalances[k].balance), Epsilon)

\* C15: when simplifyDebts stops while a participant is left with more
\* than 0.01, the request does not end as an ordinary success.
C15_ResidualSurfaced ==
    [][ResidualLeft => response'.status # 200]_vars

\* the balance formula for the UserBalance b of the stored trip, in exact
\* decimal arithmetic on the stored rows: totalPaid is the sum of the
\* expenses b.userId paid, share times the number of participants is the
\* sum of all expenses, balance is a whole number of hundredths and is
\* nearest to totalPaid - share
BalanceFormula(b) ==
    LET paid  == PaidNom(expenses, Len(expenses), b.userId)
        total == SumBalances([k \in 1 .. Len(expenses) |-> [balance |-> expenses[k].amount]],
                             Len(expenses))
    IN  /\ b.totalPaid.nom = paid
        /\ b.share.nom * Cardinality(Participants) = total
        /\ b.balance.nom % Sub = 0
        /\ 2 * AbsInt(b.balance.nom - (paid - b.share.nom)) <= Sub

\* C16: for every participant, totalPaid is the sum of the expenses the
\* participant paid, share is the total cost divided by the number of
\* participants, and balance is totalPaid - share rounded to two decimals.
C16_BalanceFormula ==
    Fresh => \A k \in 1 .. Len(userBalances) : BalanceFormula(userBalances[k])

\* balances have been calculated for a share that is not a whole number of
\* hundredths: the rounding changed the balance of somebody who paid
C16_Witness ==
    /\ Fresh
    /\ \E k \in 1 .. Len(userBalances) :
          /\ userBalances[k].totalPaid.nom > 0
          /\ userBalances[k].share.nom % Sub # 0
          /\ userBalances[k].balance.nom # userBalances[k].totalPaid.nom - userBalances[k].share.nom

IdsOf(bals) == [k \in 1 .. Len(bals) |-> bals[k].userId]

\* the participants of the stored trip, each once: the owner, then the
\* users of the TripUser rows in their order
ParticipantList == <<ownerId>> \o SelectSeq(tripUsers, LAMBDA u : u # ownerId)

\* C17: there is exactly one balance per participant, in the order of the
\* participant list, while simplifyDebts runs and in the response.
C17_OnePerParticipantInOrder ==
    /\ (pc = "loop") => IdsOf(userBalances) = ParticipantList
    /\ Done => IdsOf(response.balances) = ParticipantList

\* simplifyDebts is about to return transactions, and its sort has put a
\* later participant before an earlier one
C17_Witness ==
    /\ pc = "loop"
    /\ ~LoopCond
    /\ transactions # <<>>
    /\ Len(creditors) >= 2
    /\ creditors[1] > creditors[2]

Le(x, y) == ~Lt(y, x)

C19_PartitionByEpsilon ==
    (pc = "loop") =>
        \A k \in 1 .. Len(userBalances) :
            LET b == Calculated[k].balance.nom
            IN  /\ (b > Sub) => (k \in Range(creditors) /\ k \notin Range(debtors))
                /\ (b < 0 - Sub) => (k \in Range(debtors) /\ k \notin Range(creditors))
                /\ (b >= 0 - Sub /\ b <= Sub) =>
                      /\ k \notin Range(creditors) \cup Range(debtors)
                      /\ \A t \in 1 .. Len(transactions) :
                            /\ transactions[t].from # userBalances[k].userId
                            /\ transactions[t].to # userBalances[k].userId

\* transactions are emitted while some participant's calculated balance
\* is exactly 0.01 or -0.01
C19_Witness ==
    /\ pc = "loop"
    /\ transactions # <<>>
    /\ \E k \in 1 .. Len(userBalances) : AbsInt(Calculated[k].balance.nom) = Sub

BalanceOfId(bals, id) == bals[CHOOSE k \in 1 .. Len(bals) : bals[k].userId = id].balance

MinInt(a, b) == IF a < b THEN a ELSE b

\* C20: a transaction is emitted from a participant whose calculated
\* balance is negative to one whose calculated balance is positive, for
\* the smaller of what the payee is still owed and what the payer still
\* owes at that moment, rounded to two decimals.
C20_TransactionDirection ==
    [][(Len(transactions') > Len(transactions)) =>
          LET t == transactions'[Len(transactions')]
          IN  /\ Len(transactions') = Len(transactions) + 1
              /\ BalanceOfId(Calculated, t.from).nom < 0
              /\ BalanceOfId(Calculated, t.to).nom > 0
              /\ t.amount.nom = MinInt(BalanceOfId(userBalances, t.to).nom,
                                       0 - BalanceOfId(userBalances, t.from).nom)
              /\ t.amount = Cents(t.amount.nom \div Sub)]_vars

\* two transactions of different amounts have been emitted
C20_Witness ==
    /\ pc = "loop"
    /\ Len(transactions) >= 2
    /\ transactions[1].amount # transactions[2].amount

\* the calculated balance of the participant id, in units of 1/Sub of a
\* hundredth
InputBalance(id) == BalanceOfId(Calculated, id).nom

\* the place of the participant id in a list of references
PlaceIn(refs, id) == CHOOSE p \in 1 .. Len(refs) : userBalances[refs[p]].userId = id

\* C21: the first transaction goes from the debtor with the largest
\* magnitude to the creditor with the largest balance, and the cursors only
\* move forward: the payees follow the sorted order of the creditors, the
\* payers that of the debtors.
C21_LargestFirst ==
    (pc = "loop" /\ transactions # <<>>) =>
        /\ \A k \in 1 .. Len(Calculated) :
              /\ Calculated[k].balance.nom <= InputBalance(transactions[1].to)
              /\ Calculated[k].balance.nom >= InputBalance(transactions[1].from)
        /\ \A a \in 1 .. Len(transactions) : \A b \in a .. Len(transactions) :
              /\ InputBalance(transactions[a].to) >= InputBalance(transactions[b].to)
              /\ InputBalance(transactions[a].from) <= InputBalance(transactions[b].from)
              /\ PlaceIn(creditors, transactions[a].to) <= PlaceIn(creditors, transactions[b].to)
              /\ PlaceIn(debtors, transactions[a].from) <= PlaceIn(debtors, transactions[b].from)
        /\ PlaceIn(creditors, transactions[Len(transactions)].to) <= i + 1
        /\ PlaceIn(debtors, transactions[Len(transactions)].from) <= j + 1

\* transactions have been emitted to two creditors of different balances,
\* the second of whom comes first in the input order
C21_Witness ==
    /\ pc = "loop"
    /\ Len(transactions) >= 2
    /\ InputBalance(transactions[1].to) > InputBalance(transactions[Len(transactions)].to)
    /\ transactions[1].to > transactions[Len(transactions)].to

\* C22: creditors of equal balance, and debtors of equal balance, are
\* processed in their input order; so are the transactions that pay one
\* creditor from debtors of equal balance.
C22_StableTieBreak ==
    (pc = "loop") =>
        /\ \A p \in 1 .. Len(creditors) : \A q \in (p + 1) .. Len(creditors) :
              (Calculated[creditors[p]].balance = Calculated[creditors[q]].balance)
                  => creditors[p] < creditors[q]
        /\ \A p \in 1 .. Len(debtors) : \A q \in (p + 1) .. Len(debtors) :
              (Calculated[debtors[p]].balance = Calculated[debtors[q]].balance)
                  => debtors[p] < debtors[q]
        /\ \A a \in 1 .. Len(transactions) : \A b \in (a + 1) .. Len(transactions) :
              /\ (/\ transactions[a].from # transactions[b].from
                  /\ InputBalance(transactions[a].from) = InputBalance(transactions[b].from))
                     => PlaceIn(Refs(userBalances), transactions[a].from)
                           < PlaceIn(Refs(userBalances), transactions[b].from)
              /\ (/\ transactions[a].to # transactions[b].to
                  /\ InputBalance(transactions[a].to) = InputBalance(transactions[b].to))
                     => PlaceIn(Refs(userBalances), transactions[a].to)
                           < PlaceIn(Refs(userBalances), transactions[b].to)

\* one creditor has been paid by two debtors of equal balance
C22_Witness ==
    /\ pc = "loop"
    /\ Len(transactions) >= 2
    /\ transactions[1].to = transactions[2].to
    /\ InputBalance(transactions[1].from) = InputBalance(transactions[2].from)

\* C23: the rounding of the balances is symmetric, so the two balances of
\* a trip of two participants are exact negations of each other.
C23_SymmetricRounding ==
    (Fresh /\ Len(userBalances) = 2) =>
        userBalances[1].balance = Neg(userBalances[2].balance)

\* C24: the member list of the calculation holds the owner and every trip
\* user, each id once, and memberCount is the number of distinct ids.
C24_MembersDeduplicated ==
    /\ (pc = "loop") =>
          /\ {userBalances[k].userId : k \in 1 .. Len(userBalances)} = Participants
          /\ \A a \in 1 .. Len(userBalances) : \A b \in 1 .. Len(userBalances) :
                (userBalances[a].userId = userBalances[b].userId) => a = b
          /\ \A k \in 1 .. Len(userBalances) :
                userBalances[k].share.nom * Cardinality(Participants)
                    = TxSum(expenses, Len(expenses))
    /\ Done => response.summary.memberCount = Cardinality(Participants)

\* a settlement has been returned for a trip of several participants whose
\* owner also has a TripUser row
C24_Witness ==
    /\ Done
    /\ Len(tripUsers) >= 2
    /\ ownerId \in Range(tripUsers)
    /\ expenses # <<>>

\* C25: a POST whose title or amount is invalid is answered 400 and stores
\* nothing; every stored expense has an amount above zero.
C25_PositiveAmounts ==
    /\ [](\A k \in 1 .. Len(expenses) : Gt(expenses[k].amount, Zero))
    /\ [][(\E u \in Users : \E title \in Titles : \E amount \in Amounts :
               /\ InvalidAmount(amount)
               /\ AddExpense(u, title, amount))
             => (response'.status = 400 /\ expenses' = expenses)]_vars

\* a request has been answered 400 for a trip that has expenses
C25_Witness ==
    /\ response.status = 400
    /\ expenses # <<>>

\* C26: nobody is the payer of one transaction and the payee of another.
C26_OneRole ==
    /\ \A a \in 1 .. Len(transactions) : \A b \in 1 .. Len(transactions) :
          transactions[a].from # transactions[b].to
    /\ Done => \A a \in 1 .. Len(response.transactions) :
                  \A b \in 1 .. Len(response.transactions) :
                      response.transactions[a].from # response.transactions[b].to

\* a settlement with several payers and several payees has been returned
C26_Witness ==
    /\ Done
    /\ \E a \in 1 .. Len(response.transactions) : \E b \in 1 .. Len(response.transactions) :
          response.transactions[a].from # response.transactions[b].from
    /\ \E a \in 1 .. Len(response.transactions) : \E b \in 1 .. Len(response.transactions) :
          response.transactions[a].to # response.transactions[b].to

RECURSIVE PaidOut(_, _, _)
\* what id pays in txs[1 .. n]
PaidOut(txs, n, id) ==
    IF n = 0 THEN 0
    ELSE PaidOut(txs, n - 1, id) + (IF txs[n].from = id THEN txs[n].amount.nom ELSE 0)

RECURSIVE Received(_, _, _)
\* what id receives in txs[1 .. n]
Received(txs, n, id) ==
    IF n = 0 THEN 0
    ELSE Received(txs, n - 1, id) + (IF txs[n].to = id THEN txs[n].amount.nom ELSE 0)

\* C27: a debtor never pays more than the magnitude of the calculated
\* balance, a creditor never receives more than the calculated balance, and
\* in the loop what a creditor is owed never falls below zero and what a
\* debtor owes never rises above zero.
C27_NoOverSettlement ==
    (pc = "loop") =>
        /\ \A k \in 1 .. Len(userBalances) :
              LET b == Calculated[k].balance.nom
                  id == userBalances[k].userId
              IN  /\ PaidOut(transactions, Len(transactions), id) <= (IF b < 0 THEN 0 - b ELSE 0)
                  /\ Received(transactions, Len(transactions), id) <= (IF b > 0 THEN b ELSE 0)
        /\ \A p \in 1 .. Len(creditors) : ~Lt(userBalances[creditors[p]].balance, Zero)
        /\ \A p \in 1 .. Len(debtors) : ~Gt(userBalances[debtors[p]].balance, Zero)

\* a creditor has received the whole balance in several transactions
C27_Witness ==
    /\ pc = "loop"
    /\ \E p \in 1 .. Len(creditors) :
          /\ userBalances[creditors[p]].balance = Zero
          /\ \E a \in 1 .. Len(transactions) : \E b \in (a + 1) .. Len(transactions) :
                /\ transactions[a].to = userBalances[creditors[p]].userId
                /\ transactions[b].to = userBalances[creditors[p]].userId

\* C28: every stored expense was paid by the owner of the trip or by one
\* of its trip users, so the settle calculation has a member for the payer
\* of every expense it reads.
C28_PayerIsMember ==
    /\ \A k \in 1 .. Len(expenses) : expenses[k].paidById \in Participants
    /\ (pc = "loop") =>
          \A k \in 1 .. Len(expenses) :
              \E m \in 1 .. Len(userBalances) : userBalances[m].userId = expenses[k].paidById

\* somebody outside the trip has just been refused while a trip user who
\* is not the owner has an expense stored
C28_Witness ==
    /\ response.status = 404
    /\ \E k \in 1 .. Len(expenses) : expenses[k].paidById # ownerId
    /\ Cardinality(Participants) < Cardinality(Users)

\* the Settle Up tab displays settlement data
SettlementDisplayed ==
    /\ activeTab = "settle"
    /\ ~settlementLoading
    /\ settlementData # NoSettlement

RECURSIVE ExpensesNom(_, _)
\* the decimal total of exps[1 .. n]
ExpensesNom(exps, n) ==
    IF n = 0 THEN 0 ELSE ExpensesNom(exps, n - 1) + exps[n].amount.nom

\* C29: whenever the Settle Up tab of the trip page displays settlement
\* data, the data was computed from every expense the page has added so
\* far: its total is the total of the expenses the page lists.
C29_SettlementCurrent ==
    SettlementDisplayed =>
        settlementData.summary.totalExpenses.nom
            = ExpensesNom(trip.expenses, Len(trip.expenses))

\* the settlement the page holds was computed from the expenses the page
\* lists
SettlementOfListedExpenses ==
    /\ trip # NoTrip
    /\ settlementData # NoSettlement
    /\ settlementData.summary.totalExpenses.nom
          = ExpensesNom(trip.expenses, Len(trip.expenses))

\* the count the Overview tab divides by is the memberCount of GET settle
MemberCountsAgree ==
    trip._count.tripUsers = settlementData.summary.memberCount

====
